---- MODULE Spec2Model ----
(***************************************************************************)
(* Transactional CRUD + file-lifecycle engine of ProductLine_App_Backend:  *)
(* createItem / updateItem / deleteItem of controllers/dataController.js,  *)
(* logAction, and the file store adapter (multer storage, deleteFile).     *)
(*                                                                         *)
(* A handler is an async function: every `await` is a point where another  *)
(* event may be served, so each handler is a process whose position (pc)   *)
(* and locals are state, and there is one action per awaited step together *)
(* with the synchronous code that follows it.                              *)
(*                                                                         *)
(* Database: `client.query` runs on the connection checked out by          *)
(* pool.connect(), inside that connection's BEGIN..COMMIT; `pool.query`    *)
(* runs on another pooled connection and is committed on its own as soon   *)
(* as the statement returns.                                               *)
(***************************************************************************)
EXTENDS Integers, Sequences, FiniteSets, TLC

\* ---------------------------------------------------------------- bounds
MaxOps == 1        \* requests served in one behaviour
MaxUpload == 2     \* files stored by the upload middleware for one request
MaxConc == 2       \* requests served at the same time in SpecConc

\* ------------------------------------------------------------- JS values
Str(s) == [s |-> s, t |-> "str"]
Num(n) == [t |-> "num", n |-> n]
Arr(a) == [t |-> "arr", a |-> a]

\* file.fieldname + '-' + Date.now() + path.extname(file.originalname)
filename(fieldname, now, ext) == <<fieldname, now, ext>>

\* `uploads/${file.filename}`
UploadPath(file) == [t |-> "str", file |-> file, dir |-> "uploads/"]

\* JSON.stringify(array): a string holding the JSON text of the array
JSONstringify(a) == [t |-> "str", json |-> a]

\* JSON.parse(value): the array for the JSON text of an array, the object for
\* the JSON text '{}', a SyntaxError for a string that is no JSON text
JSONparse(v) ==
    IF v.t = "str" /\ "json" \in DOMAIN v
    THEN [ok |-> TRUE, v |-> Arr(v.json)]
    ELSE IF v = Str("{}")
    THEN [ok |-> TRUE, v |-> [t |-> "obj"]]
    ELSE [ok |-> FALSE, v |-> Arr(<<>>)]

\* JS truthiness of a value
Truthy(v) ==
    CASE v.t = "num" -> v.n # 0
      [] v.t = "arr" -> TRUE
      [] v.t = "str" -> IF "s" \in DOMAIN v THEN v.s # "" ELSE TRUE

IsArray(v) == v.t = "arr"

\* the elements of a sequence, as a set
Range(q) == {q[i] : i \in 1..Len(q)}

\* array.includes(x)
Includes(q, x) == \E i \in 1..Len(q) : q[i] = x

\* array.filter(x => !other.includes(x))
RECURSIVE FilterNotIn(_, _)
FilterNotIn(q, other) ==
    IF q = <<>> THEN <<>>
    ELSE IF Includes(other, Head(q))
         THEN FilterNotIn(Tail(q), other)
         ELSE <<Head(q)>> \o FilterNotIn(Tail(q), other)

\* object restricted to a set of keys
Restrict(f, keys) == [k \in (DOMAIN f) \cap keys |-> f[k]]

\* -------------------------------------------------------- configuration
Tables == {"products", "product_lines"}

\* the column allow-lists of createItem
tableColumns ==
    [products |-> {"product_name", "product_line", "description",
                   "product_definition", "operating_environment",
                   "technical_parameters", "machines_and_tooling",
                   "manufacturing_strategy", "purchasing_strategy",
                   "prototypes_ppap_and_sop", "engineering_and_testing",
                   "capacity", "our_advantages", "gmdc_pct", "product_line_id",
                   "customers_in_production", "customer_in_development",
                   "level_of_interest_and_why", "estimated_price_per_product",
                   "prod_if_customer_in_china", "costing_data",
                   "product_pictures"},
     product_lines |-> {"name", "type_of_products", "manufacturing_locations",
                        "design_center", "product_line_manager", "history",
                        "type_of_customers", "metiers", "strength", "weakness",
                        "perspectives", "compliance_resource_id",
                        "attachments_raw"}]

\* the keys updateItem filters out of the payload
serverManaged == {"id", "created_at", "created_by", "updated_at", "updated_by"}

\* the columns of a table: a statement naming another column fails
schemaColumns(tableName) == tableColumns[tableName] \cup serverManaged

\* tableName === 'products' ? 'product_pictures' : ... 'attachments_raw'
fileField(tableName) ==
    IF tableName = "products" THEN "product_pictures" ELSE "attachments_raw"

\* `${fileField}_retained`
retainedField(tableName) ==
    IF tableName = "products" THEN "product_pictures_retained"
    ELSE "attachments_raw_retained"

\* deleteFile's guard: a string that starts with 'uploads/'
deleteFileAccepts(p) == p.t = "str" /\ "dir" \in DOMAIN p /\ p.dir = "uploads/"

\* the text the catch blocks look for in error.message
lookupPhrase == "Product line with name"

\* a key of the request body that holds that text: a quoted identifier
phraseKey == "\"Product line with name\""

\* ------------------------------------------- pure parts of the handlers
\* createItem step 1: the uploaded paths replace the payload's file field
createData(tableName, body, files) ==
    IF files # <<>>
    THEN [k \in (DOMAIN body) \cup {fileField(tableName)} |->
            IF k = fileField(tableName) THEN JSONstringify(files) ELSE body[k]]
    ELSE body

\* createItem without the filter: every key of the payload becomes a column
finalPayloadUnfiltered(tableName, data) == data

\* createItem: the payload filtered to the table's allow-list
finalPayload(tableName, data) == Restrict(data, tableColumns[tableName])

\* updateItem step 2: the retained paths, a list whatever the client sent
retainedPaths(tableName, body) ==
    LET rf == retainedField(tableName) IN
    IF rf \notin DOMAIN body THEN <<>>
    ELSE IF IsArray(body[rf]) THEN body[rf].a
    ELSE IF Truthy(body[rf]) THEN <<body[rf]>>
    ELSE <<>>

\* data.new_files_paths || []: the paths of the uploaded files when there are
\* some; else whatever array the client put under that key of the body
newFilesPaths(body, files) ==
    IF files # <<>> THEN files
    ELSE IF "new_files_paths" \in DOMAIN body /\ Truthy(body["new_files_paths"])
    THEN CASE IsArray(body["new_files_paths"]) -> body["new_files_paths"].a
    ELSE <<>>

\* [...retainedPaths, ...(data.new_files_paths || [])]
finalFilePaths(tableName, body, files) ==
    retainedPaths(tableName, body) \o newFilesPaths(body, files)

\* updateItem: the payload after the file field is set and the temporary
\* fields are deleted
updateData(tableName, body, files) ==
    [k \in ((DOMAIN body) \cup {fileField(tableName)})
            \ {retainedField(tableName), "new_files_paths"} |->
        IF k = fileField(tableName)
        THEN JSONstringify(finalFilePaths(tableName, body, files))
        ELSE body[k]]

\* Object.keys(data).filter(key => !serverManaged.includes(key))
allowedKeys(data) == (DOMAIN data) \ serverManaged

\* updateItem deleting every old path, kept or not
filesToDeleteAll(tableName, oldData, final) ==
    LET ff == fileField(tableName) IN
    IF ff \in DOMAIN oldData /\ Truthy(oldData[ff])
    THEN LET p == JSONparse(oldData[ff]) IN
         IF p.ok /\ IsArray(p.v) THEN p.v.a ELSE <<>>
    ELSE <<>>

\* updateItem: the old paths that are not in the final paths; a value that
\* does not parse, or parses to no array, leaves nothing to delete
filesToDeleteOf(tableName, oldData, final) ==
    LET ff == fileField(tableName) IN
    IF ff \in DOMAIN oldData /\ Truthy(oldData[ff])
    THEN LET p == JSONparse(oldData[ff]) IN
         IF p.ok /\ IsArray(p.v) THEN FilterNotIn(p.v.a, final) ELSE <<>>
    ELSE <<>>

\* deleteItem taking a column that does not parse as the one path to delete
deleteFilesRaw(tableName, oldData) ==
    LET ff == fileField(tableName) IN
    IF ff \in DOMAIN oldData /\ Truthy(oldData[ff])
    THEN LET p == JSONparse(oldData[ff]) IN
         IF p.ok /\ IsArray(p.v) THEN p.v.a ELSE <<oldData[ff]>>
    ELSE <<>>

\* deleteItem: the parsed file column, or null
deleteFilesOf(tableName, oldData) ==
    LET ff == fileField(tableName) IN
    IF ff \in DOMAIN oldData /\ Truthy(oldData[ff])
    THEN LET p == JSONparse(oldData[ff]) IN
         IF p.ok /\ IsArray(p.v) THEN p.v.a ELSE <<>>
    ELSE <<>>

\* ---------------------------------------------------------------- state
VARIABLES
    db,        \* committed rows: db[tableName] is a function id -> row
    nextId,    \* nextId[tableName]: the table's id sequence
    audit,     \* rows of audit_logs, oldest first
    disk,      \* the paths present in the uploads directory
    unlinkQ,   \* paths handed to deleteFile whose fs.stat/unlink is pending
    now,       \* the last Date.now() reading the upload middleware used
    ops,       \* requests that have arrived
    req        \* req[s]: the handler serving request s

vars == <<db, nextId, audit, disk, unlinkQ, now, ops, req>>

Slots == 1..MaxOps

NoRows == <<>>

\* the rows a behaviour starts from: written by earlier requests
PathA == UploadPath(filename("attachments_raw", 0, ".pdf"))
PathC == UploadPath(filename("attachments_raw", 1, ".pdf"))
PathP == UploadPath(filename("product_pictures", 0, ".png"))

\* the file column a row was created with: uploaded files, none (the product
\* then was created without a product line), or a string the client put in
\* the body
InitFileColumns ==
    {[products |-> JSONstringify(<<PathP>>),
      product_lines |-> JSONstringify(<<PathA, PathC>>)],
     [products |-> Str(""), product_lines |-> Str("")],
     [products |-> Str("oops"), product_lines |-> Str("oops")],
     [products |-> Str("{}"), product_lines |-> Str("{}")]}

InitRow(tableName, fc) ==
    LET base == IF tableName = "products"
                THEN IF fc[tableName] = Str("")
                     THEN [product_name |-> Str("X"),
                           created_by |-> Num(11), updated_by |-> Num(11)]
                     ELSE [product_name |-> Str("X"),
                           created_by |-> Num(11), updated_by |-> Num(11),
                           product_line |-> Str("Alpha"),
                           product_line_id |-> Num(1)]
                ELSE [created_by |-> Num(11), updated_by |-> Num(11),
                      name |-> Str("Alpha")]
    IN IF fc[tableName] = Str("") THEN base
       ELSE (fileField(tableName) :> fc[tableName]) @@ base

InitDisk(fc) ==
    UNION {IF "json" \in DOMAIN fc[tn] THEN Range(fc[tn].json) ELSE {} : tn \in Tables}

\* ------------------------------------------------ routes and authenticate
\* req.headers.authorization: undefined, or '<scheme> <token>'
NoHeader == [t |-> "undefined"]
Header(scheme, token) == [t |-> "str", scheme |-> scheme, token |-> token]

\* a token signed with JWT_SECRET and not expired
BearerGood == Header("Bearer", "good")

AuthHeaders ==
    {NoHeader, Header("Basic", "good"), Header("Bearer", ""),
     Header("Bearer", "bad"), BearerGood}

\* jwt.verify(token, process.env.JWT_SECRET) returns, or throws
jwtVerify(token) == token = "good"

\* authenticate: 401 without a 'Bearer ' header or when jwt.verify throws,
\* else next() (0: no response sent)
authenticate(h) ==
    IF h = NoHeader \/ h.scheme # "Bearer" THEN 401
    ELSE IF jwtVerify(h.token) THEN 0
    ELSE 401

\* the routes of index.js that take a table's handler, and the two others
Routes ==
    {<<"POST", "auth/logout">>, <<"GET", "audit_logs">>}
        \cup ({"GET", "POST", "PUT", "DELETE"} \X Tables)

\* the routes with the upload middleware registered before authenticate
routeChainUploadFirst(method, path) ==
    CASE method = "GET" -> <<"authenticate", "getAllItems">>
      [] method = "POST" /\ path = "auth/logout" -> <<"authenticate", "logout">>
      [] method = "POST" -> <<"upload", "authenticate", "createItem">>
      [] method = "PUT" -> <<"upload", "authenticate", "updateItem">>
      [] method = "DELETE" -> <<"authenticate", "deleteItem">>

\* app.<method>(path, ...): the middlewares of a route, in order
routeChain(method, path) ==
    CASE method = "GET" -> <<"authenticate", "getAllItems">>
      [] method = "POST" /\ path = "auth/logout" -> <<"authenticate", "logout">>
      [] method = "POST" -> <<"authenticate", "upload", "createItem">>
      [] method = "PUT" -> <<"authenticate", "upload", "updateItem">>
      [] method = "DELETE" -> <<"authenticate", "deleteItem">>

\* the middlewares of a chain that run before authenticate does
RECURSIVE beforeAuthenticate(_)
beforeAuthenticate(chain) ==
    IF chain = <<>> \/ Head(chain) = "authenticate" THEN <<>>
    ELSE <<Head(chain)>> \o beforeAuthenticate(Tail(chain))

Idle ==
    [pc |-> "idle", op |-> "none", table |-> "products", id |-> 0, userId |-> 0,
     body |-> <<>>, data |-> <<>>, files |-> <<>>, final |-> <<>>,
     toDelete |-> <<>>, vals |-> <<>>, txn |-> NoRows, newItem |-> <<>>,
     updated |-> FALSE,
     err |-> "none", resp |-> 0, released |-> 0, log |-> <<>>,
     pre |-> <<>>, preDisk |-> {},
     method |-> "none", auth |-> NoHeader, rows |-> <<>>]

Init ==
    \E fc \in InitFileColumns :
        /\ db = [tn \in Tables |-> (1 :> InitRow(tn, fc))]
        /\ nextId = [tn \in Tables |-> 2]
        /\ audit = <<>>
        /\ disk \in {InitDisk(fc), InitDisk(fc) \ {PathC}}
        /\ unlinkQ = {}
        /\ now = 2
        /\ ops = 0
        /\ req = [s \in Slots |-> Idle]

\* ------------------------------------------------------------- requests
UserIds == {12}

\* clock advance before each stored file: 0 stores it at the reading of the
\* previous upload
UploadSeqs == {q \in UNION {[1..n -> {0, 1}] : n \in 0..MaxUpload} :
                 \A i \in 1..Len(q) : i > 2 => q[i] = q[2]}

CreateBodies(tableName) ==
    IF tableName = "products"
    THEN {<<>>,
          [product_name |-> Str("N")],
          [product_name |-> Str("N"), product_line |-> Str("Alpha")],
          [product_name |-> Str("N"), product_line |-> Str("Ghost")],
          [product_name |-> Str("N"), foo |-> Str("bar")],
          [foo |-> Str("bar")],
          [product_name |-> Str("N"), created_by |-> Num(99)],
          [product_name |-> Str("N"), product_pictures |-> Str("oops")]}
    ELSE {[name |-> Str("Beta")],
          [name |-> Str("Beta"), foo |-> Str("bar")]}

UpdateBodies(tableName) ==
    IF tableName = "products"
    THEN {<<>>,
          [id |-> Num(1)],
          [product_name |-> Str("N")],
          [product_name |-> Str("N"), product_pictures_retained |-> Arr(<<PathP>>)],
          [product_pictures_retained |-> PathP],
          [product_line |-> Str("Alpha")],
          [product_line |-> Str("Ghost")],
          [product_line |-> Str("Alpha"), product_line_id |-> Num(7)],
          [product_name |-> Str("N"), foo |-> Str("bar")],
          [product_pictures_retained |-> Arr(<<PathA>>)],
          [new_files_paths |-> Arr(<<PathA>>)],
          (phraseKey :> Num(1))}
    ELSE {<<>>,
          [attachments_raw_retained |-> Arr(<<PathA>>)],
          [name |-> Str("Beta"), attachments_raw_retained |-> Arr(<<PathA, PathC>>)]}

TargetIds == {1, 9}

\* the stored files of one request: the upload middleware names each by its
\* field and the clock reading
RECURSIVE storedFiles(_, _, _)
storedFiles(field, clock, advs) ==
    IF advs = <<>> THEN <<>>
    ELSE <<UploadPath(filename(field, clock + Head(advs), ".pdf"))>>
         \o storedFiles(field, clock + Head(advs), Tail(advs))

RECURSIVE Sum(_)
Sum(q) == IF q = <<>> THEN 0 ELSE Head(q) + Sum(Tail(q))

NoneInFlight == \A t \in Slots : req[t].pc \in {"idle", "done"}

\* one request at a time: the next one arrives when the last has ended
Sequential == ops < MaxOps /\ NoneInFlight

\* deleteFile(path) for each path, in order: paths the guard accepts are
\* handed to fs.stat; every call is recorded in the handler's log
Deleted(q, why) == [i \in 1..Len(q) |-> [why |-> why, ev |-> "deleteFile", path |-> q[i]]]
Accepted(q) == {q[i] : i \in {j \in 1..Len(q) : deleteFileAccepts(q[j])}}

Stmt(ev, via, ok) == [ok |-> ok, ev |-> ev, via |-> via]

\* a statement that threw inside the try block: control goes to the catch
Thrown(r, ev, via, err) ==
    [r EXCEPT !.err = err, !.pc = "rollback", !.log = Append(@, Stmt(ev, via, FALSE))]

\* the step after BEGIN, and after the lookup
NeedsLookup(r) ==
    /\ r.op \in {"create", "update"}
    /\ r.table = "products"
    /\ "product_line" \in DOMAIN r.data
    /\ Truthy(r.data["product_line"])

AfterLookup(r) == IF r.op = "create" THEN "insert" ELSE "select"

\* --------------------------------------------------------------- actions
\* POST /api/<table>: the upload middleware stores the files, then createItem
\* runs up to `await pool.connect()`
ArriveCreate(s, tableName, uid, body, advs) ==
    /\ ops < MaxOps /\ s = ops + 1 /\ NoneInFlight
    /\ LET files == storedFiles(fileField(tableName), now, advs) IN
       /\ disk' = disk \cup Range(files)
       /\ now' = now + Sum(advs)
       /\ req' = [req EXCEPT ![s] =
                    [Idle EXCEPT !.pc = "connect", !.op = "create",
                                 !.method = "POST", !.auth = BearerGood,
                                 !.table = tableName, !.userId = uid,
                                 !.body = body, !.files = files,
                                 !.data = createData(tableName, body, files),
                                 !.pre = db, !.preDisk = disk]]
    /\ ops' = ops + 1
    /\ UNCHANGED <<db, nextId, audit, unlinkQ>>

\* PUT /api/<table>/:id: the upload middleware stores the files, then
\* updateItem runs up to the EmptyUpdate return or `await pool.connect()`
ArriveUpdate(s, tableName, id, uid, body, advs) ==
    /\ s = ops + 1
    /\ LET files == storedFiles(fileField(tableName), now, advs)
           data == updateData(tableName, body, files)
           keys == allowedKeys(data)
           empty == keys = {} /\ Len(files) = 0
       IN
       /\ disk' = disk \cup Range(files)
       /\ now' = now + Sum(advs)
       /\ req' = [req EXCEPT ![s] =
                    [Idle EXCEPT !.pc = IF empty THEN "done" ELSE "connect",
                                 !.resp = IF empty THEN 400 ELSE 0,
                                 !.op = "update", !.table = tableName,
                                 !.method = "PUT", !.auth = BearerGood,
                                 !.id = id, !.userId = uid,
                                 !.body = body, !.files = files, !.data = data,
                                 !.final = finalFilePaths(tableName, body, files),
                                 !.vals = Restrict(data, keys),
                                 !.pre = db, !.preDisk = disk]]
    /\ ops' = ops + 1
    /\ UNCHANGED <<db, nextId, audit, unlinkQ>>

\* DELETE /api/<table>/:id: deleteItem up to `await pool.connect()`
ArriveDelete(s, tableName, id, uid) ==
    /\ s = ops + 1
    /\ req' = [req EXCEPT ![s] =
                 [Idle EXCEPT !.pc = "connect", !.op = "delete",
                              !.method = "DELETE", !.auth = BearerGood,
                              !.table = tableName, !.id = id, !.userId = uid,
                              !.pre = db, !.preDisk = disk]]
    /\ ops' = ops + 1
    /\ UNCHANGED <<db, nextId, audit, disk, unlinkQ, now>>

\* const client = await pool.connect(): outside the try block, a rejection
\* ends the handler
Connect(s) ==
    /\ req[s].pc = "connect"
    /\ \E ok \in BOOLEAN :
         req' = [req EXCEPT ![s] =
                   [@ EXCEPT !.pc = IF ok THEN "begin" ELSE "done",
                             !.log = Append(@, Stmt("connect", "pool", ok))]]
    /\ UNCHANGED <<db, nextId, audit, disk, unlinkQ, now, ops>>

\* await client.query('BEGIN')
Begin(s) ==
    /\ req[s].pc = "begin"
    /\ \E ok \in BOOLEAN :
         LET r == req[s] IN
         req' = [req EXCEPT ![s] =
                   IF ok
                   THEN [r EXCEPT !.pc = IF NeedsLookup(r) THEN "lookup"
                                         ELSE IF r.op = "create" THEN "insert"
                                         ELSE "select",
                                  !.log = Append(@, Stmt("BEGIN", "client", TRUE))]
                   ELSE Thrown(r, "BEGIN", "client", "db")]
    /\ UNCHANGED <<db, nextId, audit, disk, unlinkQ, now, ops>>

\* the product_lines rows whose name is the payload's product_line
lookupRows(name) ==
    {i \in DOMAIN db["product_lines"] :
        /\ "name" \in DOMAIN db["product_lines"][i]
        /\ db["product_lines"][i]["name"] = name}

\* await client.query('SELECT id FROM product_lines WHERE name = $1'); no row:
\* throw; else data.product_line_id = rows[0].id
Lookup(s) ==
    /\ req[s].pc = "lookup"
    /\ LET r == req[s]
           rows == lookupRows(r.data["product_line"]) IN
       \/ req' = [req EXCEPT ![s] = Thrown(r, "SELECT id", "client", "db")]
       \/ /\ rows = {}
          /\ req' = [req EXCEPT ![s] =
                       [r EXCEPT !.err = "lookup", !.pc = "rollback",
                                 !.log = Append(@, Stmt("SELECT id", "client", TRUE))]]
       \/ \E i \in rows :
            req' = [req EXCEPT ![s] =
                      [r EXCEPT !.data = ("product_line_id" :> Num(i)) @@ r.data,
                                !.pc = AfterLookup(r),
                                !.log = Append(@, Stmt("SELECT id", "client", TRUE))]]
    /\ UNCHANGED <<db, nextId, audit, disk, unlinkQ, now, ops>>

\* the errors an INSERT can raise: an empty column list is a syntax error, a
\* column the table does not have is an error, a uniqueness violation has
\* code 23505, and the connection or the server may fail
insertErrors(tableName, payload) ==
    IF DOMAIN payload = {} THEN {"syntax"}
    ELSE IF ~(DOMAIN payload \subseteq schemaColumns(tableName)) THEN {"column"}
    ELSE {"db", "23505"}

\* the INSERT of createItem, on the transaction's connection: the row is
\* pending until COMMIT.  An empty column list is a syntax error.
CreateInsert(s) ==
    /\ req[s].pc = "insert"
    /\ LET r == req[s]
           payload == finalPayload(r.table, r.data)
           row == payload @@ [created_by |-> Num(r.userId), updated_by |-> Num(r.userId)]
       IN
       \/ /\ DOMAIN payload # {}
          /\ DOMAIN payload \subseteq schemaColumns(r.table)
          /\ req' = [req EXCEPT ![s] =
                       [r EXCEPT !.txn = (nextId[r.table] :> row), !.pc = "audit",
                                 !.id = nextId[r.table], !.newItem = row,
                                 !.log = Append(@, Stmt("INSERT", "client", TRUE))]]
          /\ nextId' = [nextId EXCEPT ![r.table] = @ + 1]
       \/ /\ \E code \in insertErrors(r.table, payload) :
               req' = [req EXCEPT ![s] = Thrown(r, "INSERT", "client", code)]
          /\ UNCHANGED nextId
    /\ UNCHANGED <<db, audit, disk, unlinkQ, now, ops>>

\* the row a table holds for an id, {} of the code when there is none
rowOf(tableName, id) ==
    IF id \in DOMAIN db[tableName] THEN db[tableName][id] ELSE <<>>

\* updateItem step 2: await pool.query('SELECT * FROM <table> WHERE id = $1'),
\* on a pooled connection, then filesToDelete is computed
UpdateSelect(s) ==
    /\ req[s].pc = "select" /\ req[s].op = "update"
    /\ LET r == req[s] IN
       \E ok \in BOOLEAN :
         req' = [req EXCEPT ![s] =
                   IF ok
                   THEN [r EXCEPT !.toDelete = filesToDeleteOf(r.table, rowOf(r.table, r.id), r.final),
                                  !.pc = "update",
                                  !.log = Append(@, Stmt("SELECT old", "pool", TRUE))]
                   ELSE Thrown(r, "SELECT old", "pool", "db")]
    /\ UNCHANGED <<db, nextId, audit, disk, unlinkQ, now, ops>>

\* the row an UPDATE leaves: the SET clauses were built from the keys and
\* values taken before the lookup, plus updated_at and updated_by
updatedRow(row, vals, uid) ==
    [k \in (DOMAIN row) \cup (DOMAIN vals) \cup {"updated_at", "updated_by"} |->
        IF k \in DOMAIN vals THEN vals[k]
        ELSE IF k = "updated_by" THEN Num(uid)
        ELSE IF k = "updated_at" THEN Str("NOW()")
        ELSE row[k]]

\* updateItem step 3: await pool.query(UPDATE ... RETURNING *), on a pooled
\* connection: the statement commits when it returns.  No row: go to the
\* ROLLBACK of the NotFound return; else deleteFile for each old file not kept.
UpdateRow(s) ==
    /\ req[s].pc = "update"
    /\ LET r == req[s] IN
       \/ /\ req' = [req EXCEPT ![s] =
                       Thrown(r, "UPDATE", "pool",
                              IF DOMAIN r.vals \subseteq schemaColumns(r.table)
                              THEN "db" ELSE "column")]
          /\ UNCHANGED <<db, unlinkQ>>
       \/ /\ DOMAIN r.vals \subseteq schemaColumns(r.table)
          /\ r.id \notin DOMAIN db[r.table]
          /\ req' = [req EXCEPT ![s] =
                       [r EXCEPT !.pc = "rollback404",
                                 !.log = Append(@, Stmt("UPDATE", "pool", TRUE))]]
          /\ UNCHANGED <<db, unlinkQ>>
       \/ /\ DOMAIN r.vals \subseteq schemaColumns(r.table)
          /\ r.id \in DOMAIN db[r.table]
          /\ db' = [db EXCEPT ![r.table][r.id] = updatedRow(@, r.vals, r.userId)]
          /\ unlinkQ' = unlinkQ \cup Accepted(r.toDelete)
          /\ req' = [req EXCEPT ![s] =
                       [r EXCEPT !.pc = "audit", !.updated = TRUE,
                                 !.log = Append(@, Stmt("UPDATE", "pool", TRUE))
                                           \o Deleted(r.toDelete, "old")]]
    /\ UNCHANGED <<nextId, audit, disk, now, ops>>

\* deleteItem step 1: await pool.query('SELECT <fileField> ...'), on a pooled
\* connection, then filesToDelete is the parsed column
DeleteSelect(s) ==
    /\ req[s].pc = "select" /\ req[s].op = "delete"
    /\ LET r == req[s] IN
       \E ok \in BOOLEAN :
         req' = [req EXCEPT ![s] =
                   IF ok
                   THEN [r EXCEPT !.toDelete = deleteFilesOf(r.table, rowOf(r.table, r.id)),
                                  !.pc = "delete",
                                  !.log = Append(@, Stmt("SELECT old", "pool", TRUE))]
                   ELSE Thrown(r, "SELECT old", "pool", "db")]
    /\ UNCHANGED <<db, nextId, audit, disk, unlinkQ, now, ops>>

\* deleteItem with the DELETE sent on the transaction's connection: the row's
\* removal waits for COMMIT while deleteFile is called already
DeleteRowOnClient(s) ==
    /\ req[s].pc = "delete"
    /\ LET r == req[s] IN
       \/ /\ req' = [req EXCEPT ![s] = Thrown(r, "DELETE", "client", "db")]
          /\ UNCHANGED unlinkQ
       \/ /\ r.id \notin DOMAIN db[r.table]
          /\ req' = [req EXCEPT ![s] =
                       [r EXCEPT !.pc = "rollback404",
                                 !.log = Append(@, Stmt("DELETE", "client", TRUE))]]
          /\ UNCHANGED unlinkQ
       \/ /\ r.id \in DOMAIN db[r.table]
          /\ unlinkQ' = unlinkQ \cup Accepted(r.toDelete)
          /\ req' = [req EXCEPT ![s] =
                       [r EXCEPT !.pc = "audit",
                                 !.log = Append(@, Stmt("DELETE", "client", TRUE))
                                           \o Deleted(r.toDelete, "old")]]
    /\ UNCHANGED <<db, nextId, audit, disk, now, ops>>

\* deleteItem without the rowCount check: a DELETE that matched no row goes
\* on to the audit entry and the 204
DeleteRowIgnoresRowCount(s) ==
    /\ req[s].pc = "delete"
    /\ LET r == req[s] IN
       \/ /\ req' = [req EXCEPT ![s] = Thrown(r, "DELETE", "pool", "db")]
          /\ UNCHANGED <<db, unlinkQ>>
       \/ /\ db' = [db EXCEPT ![r.table] =
                      [i \in (DOMAIN @) \ {r.id} |-> @[i]]]
          /\ unlinkQ' = unlinkQ \cup Accepted(r.toDelete)
          /\ req' = [req EXCEPT ![s] =
                       [r EXCEPT !.pc = "audit", !.updated = TRUE,
                                 !.log = Append(@, Stmt("DELETE", "pool", TRUE))
                                           \o Deleted(r.toDelete, "old")]]
    /\ UNCHANGED <<nextId, audit, disk, now, ops>>

\* deleteItem step 2: await pool.query('DELETE FROM ...'), on a pooled
\* connection: the statement commits when it returns.  No row: go to the
\* ROLLBACK of the NotFound return; else deleteFile for each file of the row.
DeleteRow(s) ==
    /\ req[s].pc = "delete"
    /\ LET r == req[s] IN
       \/ /\ req' = [req EXCEPT ![s] = Thrown(r, "DELETE", "pool", "db")]
          /\ UNCHANGED <<db, unlinkQ>>
       \/ /\ r.id \notin DOMAIN db[r.table]
          /\ req' = [req EXCEPT ![s] =
                       [r EXCEPT !.pc = "rollback404",
                                 !.log = Append(@, Stmt("DELETE", "pool", TRUE))]]
          /\ UNCHANGED <<db, unlinkQ>>
       \/ /\ r.id \in DOMAIN db[r.table]
          /\ db' = [db EXCEPT ![r.table] =
                      [i \in (DOMAIN @) \ {r.id} |-> @[i]]]
          /\ unlinkQ' = unlinkQ \cup Accepted(r.toDelete)
          /\ req' = [req EXCEPT ![s] =
                       [r EXCEPT !.pc = "audit", !.updated = TRUE,
                                 !.log = Append(@, Stmt("DELETE", "pool", TRUE))
                                           \o Deleted(r.toDelete, "old")]]
    /\ UNCHANGED <<nextId, audit, disk, now, ops>>

\* the action names of the three handlers
actionOf(op) ==
    IF op = "create" THEN "CREATE" ELSE IF op = "update" THEN "UPDATE" ELSE "DELETE"

\* logAction rethrowing the error of its INSERT to the handler
logActionThrows(s) ==
    /\ req[s].pc = "audit"
    /\ LET r == req[s] IN
       \E ok \in BOOLEAN :
         /\ audit' = IF ok
                     THEN Append(audit, [action |-> actionOf(r.op),
                                         table_name |-> r.table,
                                         document_id |-> r.id,
                                         user_id |-> r.userId])
                     ELSE audit
         /\ req' = [req EXCEPT ![s] =
                      IF ok
                      THEN [r EXCEPT !.pc = "commit",
                                     !.log = Append(@, Stmt("INSERT audit_logs", "pool", TRUE))]
                      ELSE Thrown(r, "INSERT audit_logs", "pool", "db")]
    /\ UNCHANGED <<db, nextId, disk, unlinkQ, now, ops>>

\* await logAction(...): an INSERT into audit_logs through pool.query, on a
\* pooled connection; its error is caught and logged, never thrown
logAction(s) ==
    /\ req[s].pc = "audit"
    /\ LET r == req[s] IN
       \E ok \in BOOLEAN :
         /\ audit' = IF ok
                     THEN Append(audit, [action |-> actionOf(r.op),
                                         table_name |-> r.table,
                                         document_id |-> r.id,
                                         user_id |-> r.userId])
                     ELSE audit
         /\ req' = [req EXCEPT ![s] =
                      [r EXCEPT !.pc = "commit",
                                !.log = Append(@, Stmt("INSERT audit_logs", "pool", ok))]]
    /\ UNCHANGED <<db, nextId, disk, unlinkQ, now, ops>>

\* POST /api/auth/logout: the handler up to `await logAction('LOGOUT', ...)`
ArriveLogout(s, uid) ==
    /\ ops < MaxOps /\ s = ops + 1 /\ NoneInFlight
    /\ req' = [req EXCEPT ![s] =
                 [Idle EXCEPT !.pc = "logout", !.op = "logout", !.userId = uid,
                              !.method = "POST", !.auth = BearerGood,
                              !.pre = db, !.preDisk = disk]]
    /\ ops' = ops + 1
    /\ UNCHANGED <<db, nextId, audit, disk, unlinkQ, now>>

\* logout: await logAction('LOGOUT', 'users', userId, ...), then the 200;
\* logAction does not throw, so the 202 of the catch block is never sent
logout(s) ==
    /\ req[s].pc = "logout"
    /\ LET r == req[s] IN
       \E ok \in BOOLEAN :
         /\ audit' = IF ok
                     THEN Append(audit, [action |-> "LOGOUT",
                                         table_name |-> "users",
                                         document_id |-> r.userId,
                                         user_id |-> r.userId])
                     ELSE audit
         /\ req' = [req EXCEPT ![s] =
                      [r EXCEPT !.pc = "done", !.resp = 200,
                                !.log = Append(@, Stmt("INSERT audit_logs", "pool", ok))]]
    /\ UNCHANGED <<db, nextId, disk, unlinkQ, now, ops>>

\* ------------------------------------------------------------ getAllItems
\* LIMIT 500 of the audit_logs query
AuditLimit == 500

\* the action kinds of the WHERE clause of the audit_logs query
SessionActions == {"LOGIN", "LOGOUT"}

\* the tables getAllItems has a branch for
ListTables == {"audit_logs", "users"} \cup Tables

Reverse(q) == [i \in 1..Len(q) |-> q[Len(q) + 1 - i]]

\* logged_at of the i-th row of audit_logs, created_at of row id of a table:
\* the DEFAULT of the INSERT, later for each later INSERT
loggedAt(i) == i
createdAt(tableName, id) == id

notSession(e) == e.entry.action \notin SessionActions

\* ORDER BY <column> DESC over the ids of a table
RECURSIVE orderDesc(_, _)
orderDesc(tableName, ids) ==
    IF ids = {} THEN <<>>
    ELSE LET m == CHOOSE x \in ids :
                    \A y \in ids : createdAt(tableName, y) <= createdAt(tableName, x)
         IN <<m>> \o orderDesc(tableName, ids \ {m})

\* the audit_logs query without its WHERE and LIMIT clauses
listRowsUnfiltered(tableName) ==
    IF tableName = "audit_logs"
    THEN Reverse([i \in 1..Len(audit) |-> [logged_at |-> loggedAt(i), entry |-> audit[i]]])
    ELSE LET ids == orderDesc(tableName, DOMAIN db[tableName])
         IN [i \in 1..Len(ids) |-> [id |-> ids[i], row |-> db[tableName][ids[i]]]]

\* result.rows of `SELECT * FROM ${tableName} ${whereClause} ${orderByClause}
\* ${limitClause}`
listRows(tableName) ==
    IF tableName = "audit_logs"
    THEN LET stamped == [i \in 1..Len(audit) |->
                           [logged_at |-> loggedAt(i), entry |-> audit[i]]]
             ordered == Reverse(SelectSeq(stamped, notSession))
         IN SubSeq(ordered, 1, IF Len(ordered) < AuditLimit
                               THEN Len(ordered) ELSE AuditLimit)
    ELSE LET ids == orderDesc(tableName, DOMAIN db[tableName])
         IN [i \in 1..Len(ids) |-> [id |-> ids[i], row |-> db[tableName][ids[i]]]]

\* GET /api/<tableName>: authenticate passed, the handler starts
ArriveList(s, tableName) ==
    /\ ops < MaxOps /\ s = ops + 1 /\ NoneInFlight
    /\ req' = [req EXCEPT ![s] =
                 [Idle EXCEPT !.pc = "list", !.op = "list", !.table = tableName,
                              !.method = "GET", !.auth = BearerGood,
                              !.pre = db, !.preDisk = disk]]
    /\ ops' = ops + 1
    /\ UNCHANGED <<db, nextId, audit, disk, unlinkQ, now>>

\* getAllItems: the SELECT through pool.query, then 200 with result.rows;
\* the catch block answers 500
getAllItems(s) ==
    /\ req[s].pc = "list"
    /\ LET r == req[s] IN
       \E ok \in BOOLEAN :
         req' = [req EXCEPT ![s] =
                   [r EXCEPT !.pc = "done",
                             !.resp = IF ok THEN 200 ELSE 500,
                             !.err = IF ok THEN "none" ELSE "db",
                             !.rows = IF ok THEN listRows(r.table) ELSE <<>>,
                             !.log = Append(@, Stmt("SELECT list", "pool", ok))]]
    /\ UNCHANGED <<db, nextId, audit, disk, unlinkQ, now, ops>>

\* a request without a valid 'Bearer <token>' header: the middlewares of its
\* route run in order until authenticate answers 401; advs are the files of
\* its multipart body, stored if the upload middleware runs
Unauthenticated(s, method, path, h, advs) ==
    /\ ops < MaxOps /\ s = ops + 1 /\ NoneInFlight
    /\ <<method, path>> \in Routes
    /\ authenticate(h) = 401
    /\ method \notin {"POST", "PUT"} => advs = <<>>
    /\ LET chain == routeChain(method, path)
           ran == beforeAuthenticate(chain)
           uploads == "upload" \in Range(ran)
           stored == IF uploads THEN storedFiles(fileField(path), now, advs) ELSE <<>>
       IN
       /\ disk' = disk \cup Range(stored)
       /\ now' = IF uploads THEN now + Sum(advs) ELSE now
       /\ req' = [req EXCEPT ![s] =
                    [Idle EXCEPT !.pc = "done", !.op = "rejected",
                                 !.method = method, !.table = path, !.auth = h,
                                 !.resp = IF Len(ran) < Len(chain) THEN 401 ELSE 0,
                                 !.files = stored,
                                 !.log = [i \in 1..Len(ran) |->
                                            Stmt(ran[i], "middleware", TRUE)],
                                 !.pre = db, !.preDisk = disk]]
    /\ ops' = ops + 1
    /\ UNCHANGED <<db, nextId, audit, unlinkQ>>

\* the status of the success response
successStatus(op) ==
    IF op = "create" THEN 201 ELSE IF op = "update" THEN 200 ELSE 204

\* await client.query('COMMIT'), then the success response; the finally
\* block releases the connection
Commit(s) ==
    /\ req[s].pc = "commit"
    /\ LET r == req[s] IN
       \/ /\ db' = [db EXCEPT ![r.table] = r.txn @@ @]
          /\ req' = [req EXCEPT ![s] =
                       [r EXCEPT !.pc = "done", !.txn = NoRows,
                                 !.resp = successStatus(r.op),
                                 !.released = @ + 1,
                                 !.log = Append(@, Stmt("COMMIT", "client", TRUE))]]
       \/ /\ req' = [req EXCEPT ![s] = Thrown(r, "COMMIT", "client", "db")]
          /\ UNCHANGED db
    /\ UNCHANGED <<nextId, audit, disk, unlinkQ, now, ops>>

\* rowCount === 0: await client.query('ROLLBACK'), then the 404 response and
\* the finally block; a failing ROLLBACK throws into the catch block
NotFoundRollback(s) ==
    /\ req[s].pc = "rollback404"
    /\ LET r == req[s] IN
       \E ok \in BOOLEAN :
         req' = [req EXCEPT ![s] =
                   IF ok
                   THEN [r EXCEPT !.pc = "done", !.resp = 404, !.released = @ + 1,
                                  !.log = Append(@, Stmt("ROLLBACK", "client", TRUE))]
                   ELSE Thrown(r, "ROLLBACK", "client", "db")]
    /\ UNCHANGED <<db, nextId, audit, disk, unlinkQ, now, ops>>

\* the strings of the model that contain a text
Containing(text) ==
    IF text = lookupPhrase THEN {"Product line with name \"", phraseKey} ELSE {text}

\* error.message of the error a handler caught, as the sequence of its parts:
\* the Error thrown after a lookup without rows, or the message of the
\* database error, which for an unknown column names that column
errorMessage(r) ==
    CASE r.err = "lookup" ->
           <<"Product line with name \"", r.data["product_line"],
             "\" not found. Please create the Product Line first.">>
      [] r.err = "column" ->
           <<"column ", CHOOSE k \in (DOMAIN r.vals) \ schemaColumns(r.table) : TRUE,
             " of relation ", r.table, " does not exist">>
      [] r.err = "23505" -> <<"duplicate key value violates unique constraint">>
      [] r.err = "syntax" -> <<"syntax error at or near \",\"">>
      [] OTHER -> <<"Connection terminated unexpectedly">>

\* message.includes(text)
includes(message, text) ==
    \E i \in 1..Len(message) : message[i] \in Containing(text)

\* the status of the error response of the catch block: error.code, then
\* error.message.includes('Product line with name')
errorStatus(r) ==
    IF r.op = "create" /\ r.err = "23505" THEN 409
    ELSE IF r.op \in {"create", "update"} /\ includes(errorMessage(r), lookupPhrase)
    THEN 400
    ELSE 500

\* the fixed message of the 500 of each handler
genericMessage(op, tableName) ==
    IF op = "create" THEN <<"Error creating new ", tableName, ".">>
    ELSE IF op = "update" THEN <<"Error updating ", tableName, ".">>
    ELSE <<"Error deleting ", tableName, ".">>

\* the message of the error response a handler sent
responseMessage(r) ==
    CASE r.resp = 409 -> <<"A record with this unique name/ID already exists.">>
      [] r.resp = 404 -> <<r.table, " with ID ", r.id, " not found.">>
      [] r.resp = 400 /\ r.log = <<>> ->
           <<"No valid fields or new files provided for update.">>
      [] r.resp = 400 /\ r.log # <<>> -> errorMessage(r)
      [] OTHER -> genericMessage(r.op, r.table)

\* the files the catch block hands to deleteFile
rollbackFiles(r) == IF r.op = "delete" THEN <<>> ELSE r.files

\* the catch block: await client.query('ROLLBACK'), deleteFile for each file
\* uploaded in the request, the error response; then the finally block.  A
\* failing ROLLBACK throws out of the catch block: the finally block runs and
\* the handler ends with neither cleanup nor response.
Rollback(s) ==
    /\ req[s].pc = "rollback"
    /\ LET r == req[s] IN
       \/ /\ unlinkQ' = unlinkQ \cup Accepted(rollbackFiles(r))
          /\ req' = [req EXCEPT ![s] =
                       [r EXCEPT !.pc = "done", !.txn = NoRows,
                                 !.resp = errorStatus(r),
                                 !.released = @ + 1,
                                 !.log = Append(@, Stmt("ROLLBACK", "client", TRUE))
                                           \o Deleted(rollbackFiles(r), "new")]]
       \/ /\ req' = [req EXCEPT ![s] =
                       [r EXCEPT !.pc = "done", !.txn = NoRows,
                                 !.released = @ + 1,
                                 !.log = Append(@, Stmt("ROLLBACK", "client", FALSE))]]
          /\ UNCHANGED unlinkQ
    /\ UNCHANGED <<db, nextId, audit, disk, now, ops>>

\* deleteFile with an unlink error thrown to the handlers still running
FsUnlinkThrows(p) ==
    /\ p \in unlinkQ
    /\ unlinkQ' = unlinkQ \ {p}
    /\ \E ok \in BOOLEAN :
         /\ disk' = IF ok THEN disk \ {p} ELSE disk
         /\ req' = IF ok THEN req
                   ELSE [s \in DOMAIN req |->
                           IF req[s].pc \in {"audit", "commit"}
                           THEN [req[s] EXCEPT !.err = "db", !.pc = "rollback"]
                           ELSE [req[s] EXCEPT !.err = "db"]]
    /\ UNCHANGED <<db, nextId, audit, now, ops>>

\* deleteFile's callbacks: fs.stat, then fs.unlink; a missing file and a
\* failing unlink are logged
FsUnlink(p) ==
    /\ p \in unlinkQ
    /\ unlinkQ' = unlinkQ \ {p}
    /\ \E ok \in BOOLEAN : disk' = IF ok THEN disk \ {p} ELSE disk
    /\ UNCHANGED <<db, nextId, audit, now, ops, req>>

Next ==
    \/ \E s \in Slots, tn \in Tables, uid \in UserIds, advs \in UploadSeqs :
         \E body \in CreateBodies(tn) : ArriveCreate(s, tn, uid, body, advs)
    \/ \E s \in Slots, tn \in Tables, id \in TargetIds, uid \in UserIds, advs \in UploadSeqs :
         \E body \in UpdateBodies(tn) :
            Sequential /\ ArriveUpdate(s, tn, id, uid, body, advs)
    \/ \E s \in Slots, tn \in Tables, id \in TargetIds, uid \in UserIds :
         Sequential /\ ArriveDelete(s, tn, id, uid)
    \/ \E s \in Slots : Connect(s)
    \/ \E s \in Slots : Begin(s)
    \/ \E s \in Slots : Lookup(s)
    \/ \E s \in Slots : CreateInsert(s)
    \/ \E s \in Slots : UpdateSelect(s)
    \/ \E s \in Slots : UpdateRow(s)
    \/ \E s \in Slots : DeleteSelect(s)
    \/ \E s \in Slots : DeleteRow(s)
    \/ \E s \in Slots : logAction(s)
    \/ \E s \in Slots, uid \in UserIds : ArriveLogout(s, uid)
    \/ \E s \in Slots : logout(s)
    \/ \E s \in Slots, route \in Routes, h \in AuthHeaders, advs \in UploadSeqs :
         Unauthenticated(s, route[1], route[2], h, advs)
    \/ \E s \in Slots, tn \in {"audit_logs"} \cup Tables : ArriveList(s, tn)
    \/ \E s \in Slots : getAllItems(s)
    \/ \E s \in Slots : Commit(s)
    \/ \E s \in Slots : NotFoundRollback(s)
    \/ \E s \in Slots : Rollback(s)
    \/ \E p \in unlinkQ : FsUnlink(p)

Spec == Init /\ [][Next]_vars

\* ------------------------------------------- getAllItems on grown tables
\* the i-th entry of an audit_logs backlog: "mixed" has a LOGIN and a LOGOUT
\* in every ten entries, "plain" has none, "sessions" has nothing else
BacklogEntry(kind, i) ==
    [action |-> IF kind = "sessions" \/ (kind = "mixed" /\ i % 10 = 3)
                THEN (IF i % 2 = 1 THEN "LOGIN" ELSE "LOGOUT")
                ELSE IF kind = "mixed" /\ i % 10 = 8 THEN "LOGOUT"
                ELSE IF i % 3 = 0 THEN "CREATE"
                ELSE IF i % 3 = 1 THEN "UPDATE" ELSE "DELETE",
     table_name |-> IF i % 2 = 0 THEN "products" ELSE "product_lines",
     document_id |-> i,
     user_id |-> 12]

BacklogLengths ==
    {0, 1, 4, AuditLimit - 1, AuditLimit, AuditLimit + 1, AuditLimit + 130}

Backlogs ==
    {[i \in 1..n |-> BacklogEntry(kind, i)] :
        n \in BacklogLengths, kind \in {"mixed", "plain", "sessions"}}

\* the ids left in a table after creates and deletes
ListIds == {{}, {1}, {1, 2, 3}, {2, 5}}

UserRow(id) == [email |-> Str("u"), display_name |-> Str("U")]

InitList ==
    \E ids \in ListIds, backlog \in Backlogs :
        /\ db = [tn \in Tables \cup {"users"} |->
                   [i \in ids |-> IF tn = "users" THEN UserRow(i)
                                  ELSE InitRow(tn, [products |-> Str(""),
                                                    product_lines |-> Str("")])]]
        /\ nextId = [tn \in Tables |-> 6]
        /\ audit = backlog
        /\ disk = {}
        /\ unlinkQ = {}
        /\ now = 2
        /\ ops = 0
        /\ req = [s \in Slots |-> Idle]

NextList ==
    \/ \E s \in Slots, tn \in ListTables : ArriveList(s, tn)
    \/ \E s \in Slots : getAllItems(s)

SpecList == InitList /\ [][NextList]_vars

\* ------------------------------------------------- reading a handler's log
\* positions of the deleteFile calls of a handler
DeleteCalls(r) == {i \in 1..Len(r.log) : r.log[i].ev = "deleteFile"}

\* the paths a handler handed to deleteFile
DeletedPaths(r) == {r.log[i].path : i \in DeleteCalls(r)}

\* positions of the statements of one kind that succeeded
Succeeded(r, ev) == {i \in 1..Len(r.log) : r.log[i].ev = ev /\ r.log[i].ok}

\* the statements a handler sent to the database
Statements(r) == {i \in 1..Len(r.log) : r.log[i].ev \notin {"deleteFile", "connect"}}

\* ---------------------------------------------------------------- claims

\* C1: in Update every deleteFile call on an old, non-retained file comes
\* after the successful COMMIT of the same update.
C1_OldFilesDeletedAfterCommit ==
    \A s \in Slots :
        req[s].op = "update" =>
            \A i \in DeleteCalls(req[s]) :
                req[s].log[i].why = "old" =>
                    \E j \in Succeeded(req[s], "COMMIT") : j < i

\* C2: a Delete calls deleteFile only once the row's removal is committed and
\* cannot be rolled back any more, and not at all when the row deletion did
\* not commit.
C2_DeleteFilesAfterDurableRowDelete ==
    \A s \in Slots :
        (req[s].op = "delete" /\ DeleteCalls(req[s]) # {}) =>
            /\ req[s].id \in DOMAIN req[s].pre[req[s].table]
            /\ req[s].id \notin DOMAIN db[req[s].table]
            /\ \E j \in Succeeded(req[s], "DELETE") :
                 \A i \in DeleteCalls(req[s]) : j < i

\* C2 witness: a Delete has removed the row and called deleteFile, and its
\* COMMIT is still to come.
C2_Witness ==
    \E s \in Slots :
        /\ req[s].op = "delete" /\ req[s].pc = "audit"
        /\ DeletedPaths(req[s]) = {PathA, PathC}

\* C3: an operation that ends with an error response because a step between
\* BEGIN and COMMIT failed leaves the tables as they were before it.
C3_ErrorResponseMeansRolledBack ==
    \A s \in Slots :
        (req[s].pc = "done" /\ req[s].err # "none" /\ req[s].resp \in {400, 409, 500}) =>
            db = req[s].pre

\* C4: an Update that failed before its commit has called deleteFile on files
\* uploaded in the request only, and the record's file column is unchanged.
C4_FailedUpdateTouchesOnlyNewFiles ==
    \A s \in Slots :
        LET r == req[s] IN
        (r.op = "update" /\ r.pc = "done" /\ r.err # "none"
            /\ Succeeded(r, "COMMIT") = {}) =>
            /\ DeletedPaths(r) \subseteq Range(r.files)
            /\ \A i \in DOMAIN r.pre[r.table] :
                 /\ i \in DOMAIN db[r.table]
                 /\ Restrict(db[r.table][i], {fileField(r.table)})
                      = Restrict(r.pre[r.table][i], {fileField(r.table)})

\* C5: an Update whose payload holds nothing but server-managed fields and
\* that uploaded no file answers 400 without a database statement and
\* without a deleteFile call.
C5_EmptyUpdateRejected ==
    \A s \in Slots :
        (req[s].op = "update" /\ DOMAIN req[s].body \subseteq serverManaged
            /\ req[s].files = <<>>) =>
            /\ req[s].pc = "done" /\ req[s].resp = 400
            /\ req[s].log = <<>>

\* C6: a Create that failed after files were uploaded has called deleteFile
\* on every file uploaded in the request.
C6_FailedCreateCleansUploads ==
    \A s \in Slots :
        (req[s].op = "create" /\ req[s].pc = "done" /\ req[s].resp # 201) =>
            Range(req[s].files) \subseteq DeletedPaths(req[s])

\* C7: a Create or Update on products whose product_line matches no row
\* answers 400 before any INSERT or UPDATE, changes no row, and calls
\* deleteFile on every file uploaded in the request.
C7_LookupMissAborts ==
    \A s \in Slots :
        (req[s].err = "lookup" /\ req[s].pc = "done") =>
            /\ req[s].resp = 400
            /\ \A i \in Statements(req[s]) : req[s].log[i].ev \notin {"INSERT", "UPDATE"}
            /\ db = req[s].pre
            /\ Range(req[s].files) \subseteq DeletedPaths(req[s])

\* C8: after a successful Update on products whose product_line names an
\* existing product line, the row's product_line_id is that line's id.
C8_UpdateStoresResolvedId ==
    \A s \in Slots :
        LET r == req[s] IN
        (r.op = "update" /\ r.table = "products" /\ r.resp = 200
            /\ "product_line" \in DOMAIN r.body
            /\ lookupRows(r.body["product_line"]) # {}) =>
            /\ "product_line_id" \in DOMAIN db["products"][r.id]
            /\ \E i \in lookupRows(r.body["product_line"]) :
                 db["products"][r.id]["product_line_id"] = Num(i)

\* C9: an Update on an id that matches no row answers 404 having changed no
\* row, deleted no old file and logged no UPDATE, and having called
\* deleteFile on every file uploaded in the request.
C9_NotFoundUpdateCleansUploads ==
    \A s \in Slots :
        (req[s].op = "update" /\ req[s].resp = 404) =>
            /\ db = req[s].pre
            /\ \A i \in Statements(req[s]) : req[s].log[i].ev # "INSERT audit_logs"
            /\ \A i \in DeleteCalls(req[s]) : req[s].log[i].why # "old"
            /\ Range(req[s].files) \subseteq DeletedPaths(req[s])

\* C10: the columns a Create writes are allow-listed columns plus created_by
\* and updated_by; a payload field outside the allow-list is in no stored row
\* and raises no error of the INSERT.
C10_CreateWritesAllowListedColumns ==
    \A s \in Slots :
        LET r == req[s] IN
        r.op = "create" =>
            /\ DOMAIN r.newItem \subseteq tableColumns[r.table] \cup {"created_by", "updated_by"}
            /\ \A i \in DOMAIN r.txn : r.txn[i] = r.newItem
            /\ (r.resp = 201 /\ ops = s) =>
                    (r.id \in DOMAIN db[r.table] /\ db[r.table][r.id] = r.newItem)
            /\ r.err # "column"
            /\ r.err = "syntax" => (DOMAIN r.data) \cap tableColumns[r.table] = {}

\* C10 witness: a Create whose payload had a field outside the allow-list
\* answered 201 and its row is stored.
C10_Witness ==
    \E s \in Slots :
        /\ req[s].op = "create" /\ req[s].resp = 201
        /\ "foo" \in DOMAIN req[s].body
        /\ req[s].id \in DOMAIN db[req[s].table]
        /\ "foo" \notin DOMAIN db[req[s].table][req[s].id]

\* C11: the columns an UPDATE statement writes are allow-listed columns (plus
\* updated_at and updated_by), and a payload field outside the allow-list
\* does not make the update fail.
C11_UpdateWritesAllowListedColumns ==
    \A s \in Slots :
        req[s].op = "update" =>
            /\ req[s].updated => DOMAIN req[s].vals \subseteq tableColumns[req[s].table]
            /\ req[s].err # "column"

\* C12: the value an Update writes to the file column is the JSON array of
\* the retained paths, in their order, followed by the paths of the files
\* uploaded in the request.
C12_FileColumnIsRetainedThenUploaded ==
    \A s \in Slots :
        LET r == req[s] IN
        (r.op = "update" /\ r.updated /\ ops = s) =>
            db[r.table][r.id][fileField(r.table)]
                = JSONstringify(retainedPaths(r.table, r.body) \o r.files)

\* the paths in a row's file column, none when it holds no JSON array
oldReferences(r) ==
    IF r.id \in DOMAIN r.pre[r.table]
    THEN Range(deleteFilesOf(r.table, r.pre[r.table][r.id]))
    ELSE {}

\* C13: a successful Update has called deleteFile on exactly the paths of the
\* record's previous file column that are not among the final paths, each
\* after the UPDATE returned; no final path is among them.
C13_UpdateDeletesOldMinusFinal ==
    \A s \in Slots :
        LET r == req[s] IN
        (r.op = "update" /\ r.resp = 200) =>
            /\ DeletedPaths(r) = oldReferences(r) \ Range(r.final)
            /\ DeletedPaths(r) \cap Range(r.final) = {}
            /\ \A i \in DeleteCalls(r) :
                 /\ r.log[i].why = "old"
                 /\ \E j \in Succeeded(r, "UPDATE") : j < i

\* C13 witness: an Update that kept one old file and uploaded one has answered
\* 200 and deleteFile was called on the other old file only.
C13_Witness ==
    \E s \in Slots :
        /\ req[s].op = "update" /\ req[s].resp = 200
        /\ req[s].final = <<PathA>> \o req[s].files /\ Len(req[s].files) = 1
        /\ DeletedPaths(req[s]) = {PathC}

\* no connection attempt and no statement of the handler failed
NoFault(r) == \A i \in 1..Len(r.log) : r.log[i].ev # "deleteFile" => r.log[i].ok

\* C14: a Delete on an id that matches no row never answers 204, appends no
\* audit entry, calls deleteFile on nothing and leaves the tables unchanged;
\* it answers 404 unless a statement failed.
C14_DeleteMissingRow ==
    \A s \in Slots :
        LET r == req[s] IN
        (r.op = "delete" /\ r.id \notin DOMAIN r.pre[r.table]) =>
            /\ r.resp \in {0, 404, 500}
            /\ \A i \in Statements(r) : r.log[i].ev # "INSERT audit_logs"
            /\ DeleteCalls(r) = {}
            /\ ops = s => db = r.pre
            /\ (r.pc = "done" /\ NoFault(r))
                  => (r.resp = 404 /\ Succeeded(r, "DELETE") # {})

\* C14 witness: a Delete on a missing id has answered 404.
C14_Witness ==
    \E s \in Slots :
        /\ req[s].op = "delete" /\ req[s].id \notin DOMAIN req[s].pre[req[s].table]
        /\ req[s].resp = 404

\* the handlers of the three mutations
Mutations == {"create", "update", "delete"}

\* C15: an audit entry of a Create, Update or Delete exists only when the
\* operation's transaction committed: an operation that ended without a
\* successful COMMIT has appended no audit entry.
C15_AuditOnlyAfterCommit ==
    \A s \in Slots :
        (req[s].op \in Mutations /\ req[s].pc = "done"
            /\ Succeeded(req[s], "COMMIT") = {}) =>
            Succeeded(req[s], "INSERT audit_logs") = {}

\* positions of the audit inserts a handler made
AuditCalls(r) == {i \in 1..Len(r.log) : r.log[i].ev = "INSERT audit_logs"}

\* nothing but the audit insert failed in the handler
OnlyAuditFaults(r) ==
    \A i \in 1..Len(r.log) :
        r.log[i].ev \notin {"deleteFile", "INSERT audit_logs"} => r.log[i].ok

\* the rows of the target table once the mutation of a handler is applied
mutated(r) ==
    IF r.op = "create" THEN (r.id :> r.newItem) @@ r.pre[r.table]
    ELSE IF r.op = "update"
    THEN [r.pre[r.table] EXCEPT ![r.id] = updatedRow(@, r.vals, r.userId)]
    ELSE [i \in (DOMAIN r.pre[r.table]) \ {r.id} |-> r.pre[r.table][i]]

\* C16: a failing audit insert changes nothing of the outcome: a handler that
\* reached its audit insert and in which nothing else failed answers with
\* its success status and the mutation is committed, whether the insert
\* succeeded or failed; the error never reaches the handler.
C16_AuditFailureIsSwallowed ==
    \A s \in Slots :
        LET r == req[s] IN
        (AuditCalls(r) # {} /\ OnlyAuditFaults(r)) =>
            /\ r.err = "none"
            /\ r.pc # "rollback"
            /\ r.pc = "done" =>
                 /\ r.resp = IF r.op = "logout" THEN 200 ELSE successStatus(r.op)
                 /\ (r.op \in Mutations /\ ops = s) => db[r.table] = mutated(r)

\* C16 witness: the audit insert of a Create failed and the Create answered
\* 201 with its row stored.
C16_Witness ==
    \E s \in Slots :
        /\ req[s].op = "create" /\ req[s].resp = 201
        /\ \E i \in AuditCalls(req[s]) : ~req[s].log[i].ok
        /\ req[s].id \in DOMAIN db[req[s].table]

\* the paths the file columns of the stored rows hold
referenced ==
    UNION {UNION {Range(deleteFilesOf(tn, db[tn][i])) : i \in DOMAIN db[tn]} : tn \in Tables}

\* C17: once every request has completed and every dispatched deletion has
\* finished, each file of the uploads directory is in the file column of some
\* stored row.
C17_NoOrphans ==
    (NoneInFlight /\ unlinkQ = {} /\ \A s \in 1..ops : req[s].resp # 0)
        => disk \subseteq referenced

\* a file column that is absent or holds the JSON text of an array of
\* 'uploads/...' strings
wellFormedFileColumn(tableName, row) ==
    LET ff == fileField(tableName) IN
    ff \in DOMAIN row =>
        /\ JSONparse(row[ff]).ok
        /\ \A p \in Range(JSONparse(row[ff]).v.a) : deleteFileAccepts(p)

\* C18: the file column of a row a Create or Update stored is absent or a
\* well-formed JSON array of attachment references.
C18_FileColumnWellFormed ==
    \A s \in Slots :
        LET r == req[s] IN
        (r.op \in {"create", "update"} /\ r.resp \in {200, 201} /\ ops = s) =>
            wellFormedFileColumn(r.table, db[r.table][r.id])

\* C19: created_by is the principal that created the row and never changes;
\* updated_by is the principal of the last successful Create or Update on the
\* row; no payload sets a server-managed field.
C19_ServerManagedFields ==
    \A s \in Slots :
        LET r == req[s] IN
        (r.op \in {"create", "update"} /\ r.pc = "done" /\ ops = s
            /\ r.id \in DOMAIN db[r.table]) =>
            LET row == db[r.table][r.id] IN
            IF r.op = "create"
            THEN row["created_by"] = Num(r.userId) /\ row["updated_by"] = Num(r.userId)
            ELSE /\ row["created_by"] = r.pre[r.table][r.id]["created_by"]
                 /\ row["updated_by"] = IF r.resp = 200 THEN Num(r.userId)
                                        ELSE r.pre[r.table][r.id]["updated_by"]

\* C20: after a successful Update every path in the stored file column was in
\* the record's file column before the update or was uploaded in the request.
C20_RetainedAreExisting ==
    \A s \in Slots :
        LET r == req[s] IN
        (r.op = "update" /\ r.resp = 200 /\ ops = s) =>
            Range(deleteFilesOf(r.table, db[r.table][r.id]))
                \subseteq oldReferences(r) \cup Range(r.files)

\* the statements of a handler's unit of work: the read of the old row and
\* the row mutation
UnitOfWork == {"SELECT old", "INSERT", "UPDATE", "DELETE"}

\* C21: a handler that acquired a connection has released it exactly once
\* when it ends, and every statement of its unit of work was sent on that
\* connection.
C21_ScopedTransactionalConnection ==
    \A s \in Slots :
        LET r == req[s] IN
        r.op \in Mutations =>
            /\ (r.pc = "done" /\ Succeeded(r, "connect") # {}) => r.released = 1
            /\ r.pc # "done" => r.released = 0
            /\ \A i \in 1..Len(r.log) :
                 r.log[i].ev \in UnitOfWork => r.log[i].via = "client"

\* the target row of a handler held, when the request arrived, a file column
\* that is no JSON text of an array
malformedOld(r) ==
    /\ r.id \in DOMAIN r.pre[r.table]
    /\ LET row == r.pre[r.table][r.id]
           ff == fileField(r.table) IN
       /\ ff \in DOMAIN row
       /\ Truthy(row[ff])
       /\ ~(JSONparse(row[ff]).ok /\ IsArray(JSONparse(row[ff]).v))

\* C22: an Update or Delete of a row whose file column is no well-formed JSON
\* array calls deleteFile on no pre-existing file, and unless a statement
\* fails or the product line lookup misses it applies the mutation and
\* answers with its success status.
C22_MalformedFileColumnIsNoFiles ==
    \A s \in Slots :
        LET r == req[s] IN
        (r.op \in {"update", "delete"} /\ malformedOld(r)) =>
            /\ \A i \in DeleteCalls(r) : r.log[i].why # "old"
            /\ (r.pc = "done" /\ NoFault(r) /\ r.err = "none") =>
                 /\ r.resp = successStatus(r.op)
                 /\ ops = s => db[r.table] = mutated(r)

\* C22 witness: a Delete of a row with a malformed file column answered 204.
C22_Witness ==
    \E s \in Slots :
        /\ req[s].op = "delete" /\ malformedOld(req[s])
        /\ req[s].resp = 204 /\ req[s].id \notin DOMAIN db[req[s].table]

\* C23: a step of deleteFile's callbacks changes no handler, no row and no
\* audit entry, and removes at most the file it was called for, found or
\* not, unlinked or not; an Update or Delete that called deleteFile and in
\* which no statement failed answers with its success status.
C23_DeleteFileNeverPropagates ==
    [][ /\ (unlinkQ' # unlinkQ /\ unlinkQ' \subseteq unlinkQ) =>
              /\ req' = req /\ db' = db /\ audit' = audit
              /\ disk' \subseteq disk
              /\ (disk \ disk') \subseteq (unlinkQ \ unlinkQ')
        /\ \A s \in Slots :
              (req'[s].op \in {"update", "delete"} /\ req'[s].pc = "done"
                  /\ (\E i \in DeleteCalls(req'[s]) : req'[s].log[i].why = "old")
                  /\ NoFault(req'[s]))
                  => req'[s].resp = successStatus(req'[s].op)
      ]_vars

\* C23 witness: an Update answered 200 after calling deleteFile on one file
\* that was absent already and on one whose unlink failed.
C23_Witness ==
    \E s \in Slots :
        /\ req[s].op = "update" /\ req[s].resp = 200 /\ unlinkQ = {}
        /\ \E p, q \in DeletedPaths(req[s]) :
             /\ deleteFileAccepts(p) /\ p \in disk
             /\ deleteFileAccepts(q) /\ q \notin req[s].preDisk

\* C25: the files the upload middleware stored for a request have pairwise
\* distinct references, and none is the reference of a file stored before.
C25_UploadNamesUnique ==
    \A s \in Slots :
        /\ Cardinality(Range(req[s].files)) = Len(req[s].files)
        /\ Range(req[s].files) \cap req[s].preDisk = {}

\* C29: a Create, Update or Delete handler that has ended has sent a
\* response.
C29_HandlerAlwaysResponds ==
    \A s \in Slots :
        (req[s].op \in Mutations /\ req[s].pc = "done") => req[s].resp # 0

\* C24: an error response of Create is 409 for a uniqueness violation, 400
\* with the lookup's message for a lookup miss, and else 500 with the fixed
\* message; Update and Delete answer 400 for the empty update or the lookup
\* miss, 404, or 500 with the fixed message; no message of a 500 or of a
\* fixed 4xx holds text of the error.
C24_ErrorsMapByKind ==
    \A s \in Slots :
        LET r == req[s] IN
        (r.op \in Mutations /\ r.pc = "done" /\ r.resp >= 400) =>
            /\ r.resp \in {400, 404, 409, 500}
            /\ r.resp = 409 <=> (r.op = "create" /\ r.err = "23505")
            /\ r.resp = 404 => (r.op \in {"update", "delete"} /\ r.err = "none")
            /\ r.resp = 400 =>
                 \/ r.op = "update" /\ r.log = <<>>
                 \/ r.op \in {"create", "update"} /\ r.err = "lookup"
            /\ r.err = "lookup" => r.resp = 400
            /\ r.resp = 500 =>
                 /\ responseMessage(r) = genericMessage(r.op, r.table)
                 /\ Range(responseMessage(r)) \cap Range(errorMessage(r)) = {}

\* C30: every route starts with authenticate; a request without a valid
\* 'Bearer <token>' header is answered 401 with no middleware and no handler
\* run for it: no file stored, no row, file or audit entry changed; the
\* requests a handler serves carry a header that authenticate passed.
C30_NoHandlerWithoutValidToken ==
    [][ \A s \in Slots :
          /\ (req'[s].op = "rejected" /\ req[s].op # "rejected") =>
                /\ req'[s].resp = 401
                /\ req'[s].log = <<>> /\ req'[s].files = <<>>
                /\ beforeAuthenticate(routeChain(req'[s].method, req'[s].table)) = <<>>
                /\ db' = db /\ disk' = disk /\ audit' = audit
                /\ unlinkQ' = unlinkQ /\ nextId' = nextId
          /\ req'[s].op \notin {"none", "rejected"} => authenticate(req'[s].auth) = 0
      ]_vars

\* C30 witness: a POST with an invalid bearer token was answered 401.
C30_Witness ==
    \E s \in Slots :
        /\ req[s].op = "rejected" /\ req[s].method = "POST"
        /\ req[s].table \in Tables
        /\ req[s].auth = Header("Bearer", "bad") /\ req[s].resp = 401

\* C26: a successful List on audit_logs returns no LOGIN or LOGOUT entry, at
\* most AuditLimit entries, newest first, and leaves out a non-session
\* entry only when the result is full and the entry is older than every one
\* returned; a successful List on users, product_lines or products returns
\* every row once, newest created first; the query writes nothing.
C26_ListReadsNewestFirst ==
    [][ \A s \in Slots :
          (req[s].pc = "list" /\ req'[s].pc = "done") =>
            /\ db' = db /\ audit' = audit /\ disk' = disk
            /\ unlinkQ' = unlinkQ /\ nextId' = nextId
            /\ req'[s].resp \in {200, 500}
            /\ req'[s].resp = 200 =>
                 LET rows == req'[s].rows
                     tn == req[s].table
                 IN IF tn = "audit_logs"
                    THEN /\ Len(rows) <= AuditLimit
                         /\ \A i \in 1..Len(rows) :
                              /\ rows[i].logged_at \in 1..Len(audit)
                              /\ rows[i].entry = audit[rows[i].logged_at]
                              /\ rows[i].entry.action \notin {"LOGIN", "LOGOUT"}
                              /\ i > 1 => rows[i].logged_at < rows[i - 1].logged_at
                         /\ \A k \in 1..Len(audit) :
                              (/\ audit[k].action \notin {"LOGIN", "LOGOUT"}
                               /\ \A i \in 1..Len(rows) : rows[i].logged_at # k)
                                 => /\ Len(rows) = AuditLimit
                                    /\ k < rows[AuditLimit].logged_at
                    ELSE /\ {rows[i].id : i \in 1..Len(rows)} = DOMAIN db[tn]
                         /\ \A i \in 1..Len(rows) :
                              /\ rows[i].row = db[tn][rows[i].id]
                              /\ i > 1 => rows[i].id < rows[i - 1].id
      ]_vars

\* C26 witness: a List on audit_logs returned AuditLimit entries out of a log
\* that holds more non-session entries than that, and session entries too.
C26_Witness ==
    \E s \in Slots :
        /\ req[s].op = "list" /\ req[s].table = "audit_logs"
        /\ req[s].pc = "done" /\ req[s].resp = 200
        /\ Len(req[s].rows) = AuditLimit
        /\ \E k \in 1..Len(audit) : audit[k].action \in {"LOGIN", "LOGOUT"}
        /\ Cardinality({k \in 1..Len(audit) :
                          audit[k].action \notin {"LOGIN", "LOGOUT"}}) > AuditLimit

\* --------------------------------------- requests served at the same time
\* Node runs a handler up to its next await; the handlers of several requests
\* interleave at their awaits.  Updates and Deletes of product line 1, whose
\* row references PathA and PathC.
ConcSlots == 1..MaxConc

ConcUploads == {<<>>, <<1>>}

InitConc ==
    LET fc == [products |-> JSONstringify(<<PathP>>),
               product_lines |-> JSONstringify(<<PathA, PathC>>)]
    IN /\ db = [tn \in Tables |-> (1 :> InitRow(tn, fc))]
       /\ nextId = [tn \in Tables |-> 2]
       /\ audit = <<>>
       /\ disk = InitDisk(fc)
       /\ unlinkQ = {}
       /\ now = 2
       /\ ops = 0
       /\ req = [s \in ConcSlots |-> Idle]

NextConc ==
    \/ \E s \in ConcSlots, uid \in UserIds, advs \in ConcUploads :
         \E body \in UpdateBodies("product_lines") :
            ops < MaxConc /\ ArriveUpdate(s, "product_lines", 1, uid, body, advs)
    \/ \E s \in ConcSlots, uid \in UserIds :
         ops < MaxConc /\ ArriveDelete(s, "product_lines", 1, uid)
    \/ \E s \in ConcSlots : Connect(s)
    \/ \E s \in ConcSlots : Begin(s)
    \/ \E s \in ConcSlots : UpdateSelect(s)
    \/ \E s \in ConcSlots : UpdateRow(s)
    \/ \E s \in ConcSlots : DeleteSelect(s)
    \/ \E s \in ConcSlots : DeleteRow(s)
    \/ \E s \in ConcSlots : logAction(s)
    \/ \E s \in ConcSlots : Commit(s)
    \/ \E s \in ConcSlots : NotFoundRollback(s)
    \/ \E s \in ConcSlots : Rollback(s)
    \/ \E p \in unlinkQ : FsUnlink(p)

SpecConc == InitConc /\ [][NextConc]_vars

\* the requests that have arrived
Arrived == {s \in ConcSlots : req[s].op # "none"}

\* the requests on record id of a table that have arrived
On(tableName, id) == {s \in Arrived : req[s].table = tableName /\ req[s].id = id}

\* every request has arrived and ended, and the unlinks have been carried out
Quiescent ==
    /\ ops = MaxConc
    /\ \A s \in ConcSlots : req[s].pc = "done"
    /\ unlinkQ = {}

\* C27: two or more Updates of the same record, served at the same time
\* without a failing statement, each answered 200, each retaining only
\* references the record had when the request arrived: once all have ended
\* and the unlinks are done, every file the row references is in uploads/.
C27_ConcurrentUpdatesKeepFiles ==
    \A tn \in Tables, id \in TargetIds :
        (/\ Quiescent
         /\ On(tn, id) = ConcSlots
         /\ \A s \in ConcSlots :
              /\ req[s].op = "update" /\ req[s].resp = 200 /\ NoFault(req[s])
              /\ id \in DOMAIN req[s].pre[tn]
              /\ (Range(req[s].final) \ Range(req[s].files))
                    \subseteq Range(deleteFilesOf(tn, req[s].pre[tn][id])))
            => /\ id \in DOMAIN db[tn]
               /\ Range(deleteFilesOf(tn, db[tn][id])) \subseteq disk

\* C28: two or more Deletes of the same record, each arriving while the
\* record exists and served without a failing statement: once all have
\* ended, exactly one answered 204 and every other 404, audit_logs holds
\* exactly one DELETE entry for the record, the row is gone, and the Delete
\* that answered 204 called deleteFile for every file the record referenced.
C28_ConcurrentDeletesOneWins ==
    \A tn \in Tables, id \in TargetIds :
        (/\ \A s \in ConcSlots : req[s].pc = "done"
         /\ ops = MaxConc
         /\ On(tn, id) = ConcSlots
         /\ \A s \in ConcSlots :
              /\ req[s].op = "delete" /\ NoFault(req[s])
              /\ id \in DOMAIN req[s].pre[tn])
            => /\ Cardinality({s \in ConcSlots : req[s].resp = 204}) = 1
               /\ \A s \in ConcSlots : req[s].resp \in {204, 404}
               /\ Cardinality({k \in 1..Len(audit) :
                                 /\ audit[k].action = "DELETE"
                                 /\ audit[k].table_name = tn
                                 /\ audit[k].document_id = id}) = 1
               /\ id \notin DOMAIN db[tn]
               /\ \A s \in ConcSlots :
                    req[s].resp = 204 =>
                       Range(deleteFilesOf(tn, req[s].pre[tn][id]))
                          \subseteq DeletedPaths(req[s])

\* C28 witness: two Deletes of product line 1 were served at the same time
\* without a failing statement; one answered 204 and the other 404.
C28_Witness ==
    /\ MaxConc >= 2 /\ ops = MaxConc
    /\ \A s \in ConcSlots :
         /\ req[s].op = "delete" /\ req[s].pc = "done" /\ NoFault(req[s])
         /\ 1 \in DOMAIN req[s].pre["product_lines"]
    /\ \E s, t \in ConcSlots : req[s].resp = 204 /\ req[t].resp = 404

====
